---- MODULE Spec2Model ----
(***************************************************************************)
(* Kitchen inventory / recipe service: the relational store                *)
(* (DatabaseStorage), the favorites relation, the recipe routes and the    *)
(* recipe generation pipeline.                                             *)
(*                                                                         *)
(* Every handler is an async function: each `await` on the database or on  *)
(* the model endpoint is one atomic step, and the steps of different       *)
(* requests interleave freely.                                             *)
(***************************************************************************)
EXTENDS Naturals, Integers, Sequences, FiniteSets, Bags, TLC

\* ------------------------------------------------------------------ bounds
NumUsers == 2
NumRecipes == 2
NumProcs == 2
MaxRequests == 3
MaxGenerations == 1
MaxBatch == 3
MaxItems == 3

Users == 1..NumUsers
RecipeIds == 1..NumRecipes
Procs == 1..NumProcs

\* `userId` of a request that carries no user context (req.user undefined).
NoUser == 0

VARIABLES
    recipes,        \* table `recipes`: sequence of rows, in insertion order
    recipeSeq,      \* the serial of recipes.id: the next id
    userFavorites,  \* table `user_favorites`: bag of rows [userId, recipeId]
    inventoryItems, \* table `inventory_items`: sequence of rows
    inventorySeq,   \* the serial of inventory_items.id: the next id
    proc,           \* the request each connection slot is executing
    response,       \* what the step just taken answered (NoResponse if nothing)
    lastToggle,     \* history: per pair, the last toggle that ran undisturbed
    modelCalls,     \* history: per generate request, its model calls that settled
    started         \* number of requests received so far

vars == <<recipes, recipeSeq, userFavorites, inventoryItems, inventorySeq, proc, response,
          lastToggle, modelCalls, started>>

Pairs == Users \X RecipeIds

\* ------------------------------------------------------------ table helpers
FavRow(u, r) == [userId |-> u, recipeId |-> r]

\* ---------------------------------------------- JSON text of the columns
\* The text JSON.stringify writes for an array of objects: per element its
\* members in insertion order, each a key and a literal. A string is written
\* as a string literal, a finite number as a number literal, a boolean as
\* `true` or `false`.
StringLiteral(s) == <<"string", s>>

NumberLiteral(n) == <<"number", n>>

BooleanLiteral(b) == IF b THEN <<"true">> ELSE <<"false">>

Member(key, literal) == <<key>> \o literal

ArrayText(elements) == [syntax |-> "array", elements |-> elements]

\* A text that is no JSON, and the text of no column.
BrokenText == [syntax |-> "broken", elements |-> <<>>]

NoText == [syntax |-> "none", elements |-> <<>>]

\* A serialization that writes the elements last to first.
StringifyReversed(ingredients) ==
    ArrayText([i \in 1..Len(ingredients) |->
        LET x == ingredients[Len(ingredients) + 1 - i]
        IN  <<Member("name", StringLiteral(x.name)),
              Member("quantity", StringLiteral(x.quantity)),
              Member("unit", StringLiteral(x.unit)),
              Member("inInventory", BooleanLiteral(x.inInventory))>>])

\* JSON.stringify(recipe.ingredients)
StringifyIngredients(ingredients) ==
    ArrayText([i \in 1..Len(ingredients) |->
        LET x == ingredients[i]
        IN  <<Member("name", StringLiteral(x.name)),
              Member("quantity", StringLiteral(x.quantity)),
              Member("unit", StringLiteral(x.unit)),
              Member("inInventory", BooleanLiteral(x.inInventory))>>])

\* JSON.stringify(recipe.instructions)
StringifyInstructions(instructions) ==
    ArrayText([i \in 1..Len(instructions) |->
        LET x == instructions[i]
        IN  <<Member("step", NumberLiteral(x.step)),
              Member("instruction", StringLiteral(x.instruction))>>])

\* The value the literal of a member denotes.
LiteralValue(member) ==
    CASE member[2] = "string" -> member[3]
      [] member[2] = "number" -> member[3]
      [] member[2] = "true" -> TRUE
      [] member[2] = "false" -> FALSE

\* The object of a member list: per key the value of its last member.
ParseObject(members) ==
    [k \in {members[i][1] : i \in 1..Len(members)} |->
        LiteralValue(members[CHOOSE i \in 1..Len(members) :
                                 /\ members[i][1] = k
                                 /\ \A j \in 1..Len(members) : members[j][1] = k => j <= i])]

\* A parse that reads a broken text as the empty array.
JsonParseOrEmpty(text) ==
    IF text.syntax = "array"
    THEN [ok |-> TRUE, value |-> [i \in 1..Len(text.elements) |-> ParseObject(text.elements[i])]]
    ELSE [ok |-> TRUE, value |-> <<>>]

\* JSON.parse(text): the array of the objects, or a SyntaxError.
JsonParse(text) ==
    IF text.syntax = "array"
    THEN [ok |-> TRUE, value |-> [i \in 1..Len(text.elements) |-> ParseObject(text.elements[i])]]
    ELSE [ok |-> FALSE, value |-> <<>>]

\* The columns of a recipe that was stored before the first request.
StewIngredients ==
    StringifyIngredients(<<[name |-> "beef", quantity |-> "500", unit |-> "g",
                            inInventory |-> FALSE]>>)

StewInstructions == StringifyInstructions(<<[step |-> 1, instruction |-> "Simmer"]>>)

\* A row of `recipes`, by its id, its title and its two JSON columns.
StoredRecipe(i, t, ingredients, instructions) ==
    [id |-> i, title |-> t, ingredients |-> ingredients, instructions |-> instructions]

RecipeRow(i, t) == StoredRecipe(i, t, StewIngredients, StewInstructions)

NoRecipe == StoredRecipe(0, "", NoText, NoText)

\* db.select().from(recipes).where(eq(recipes.id, id))
SelectRecipe(tbl, id) == SelectSeq(tbl, LAMBDA row : row.id = id)

RecipeExists(tbl, id) == Len(SelectRecipe(tbl, id)) > 0

\* `const [recipe] = await db.select()...`: the first row of the result, or
\* undefined.
FirstRecipe(tbl, id) ==
    IF RecipeExists(tbl, id) THEN SelectRecipe(tbl, id)[1] ELSE NoRecipe

\* db.select().from(userFavorites).where(and(eq(recipeId), eq(userId)))
SelectFavorite(favs, r, u) == CopiesIn(FavRow(u, r), favs)

IsFavorite(favs, r, u) == SelectFavorite(favs, r, u) > 0

\* A delete whose where clause lacks the user.
DeleteFavoriteOfAnyUser(favs, r, u) ==
    [row \in {x \in DOMAIN favs : x.recipeId # r} |-> favs[row]]

\* A delete that removes one matching row and leaves any other.
DeleteOneFavorite(favs, r, u) == favs (-) SetToBag({FavRow(u, r)})

\* db.delete(userFavorites).where(and(eq(recipeId), eq(userId)))
DeleteFavorite(favs, r, u) ==
    [row \in DOMAIN favs \ {FavRow(u, r)} |-> favs[row]]

\* An insert with the two ids in each other's column.
InsertSwapped(favs, r, u) == favs (+) SetToBag({FavRow(r, u)})

\* db.insert(userFavorites).values({userId, recipeId})
InsertFavorite(favs, r, u) == favs (+) SetToBag({FavRow(u, r)})

\* db.delete(userFavorites).where(eq(userFavorites.recipeId, id))
DeleteFavoritesOfRecipe(favs, id) ==
    [row \in {x \in DOMAIN favs : x.recipeId # id} |-> favs[row]]

\* db.delete(recipes).where(eq(recipes.id, id))
DeleteRecipeRow(tbl, id) == SelectSeq(tbl, LAMBDA row : row.id # id)

\* A schema without the reference.
NoForeignKey(tbl, favs) == TRUE

\* recipe_id ... references(() => recipes.id): the foreign key of user_favorites
ForeignKeyHolds(tbl, favs) ==
    \A row \in DOMAIN favs : RecipeExists(tbl, row.recipeId)

\* A select whose where clause is missing.
FavoriteRowsOfAnyone(favs, u) == favs

\* db.select({recipeId}).from(userFavorites).where(eq(userFavorites.userId, userId))
FavoriteRowsOf(favs, u) ==
    [row \in {x \in DOMAIN favs : x.userId = u} |-> favs[row]]

\* The rows of a select arrive in an order the database chooses.
RowOrders(B) ==
    LET n == BagCardinality(B)
    IN  {s \in [1..n -> DOMAIN B] :
            \A row \in DOMAIN B : Cardinality({i \in 1..n : s[i] = row}) = B[row]}

\* ---------------------------------------------------------- request state
\* No reply of the model, and no inventory row.
NoReply ==
    [kind |-> "none", content |-> "",
     value |-> [type |-> "undefined", items |-> <<>>,
                recipes |-> [type |-> "undefined", items |-> <<>>]]]

NoItem == [id |-> 0, userId |-> 0, name |-> "", quantity |-> "", unit |-> ""]

Idle ==
    [op |-> "idle", pc |-> "idle", userId |-> NoUser, recipeId |-> 0,
     existing |-> FALSE, recipeIds |-> <<>>, out |-> <<>>,
     batch |-> <<>>, saved |-> <<>>, failed |-> {}, created |-> {}, cause |-> "none",
     req |-> 0, reply |-> NoReply, itemId |-> 0, item |-> NoItem, form |-> NoItem,
     inventory |-> <<>>, row |-> NoRecipe,
     pre |-> FALSE, clean |-> TRUE]

NoResponse ==
    [op |-> "none", status |-> 0, userId |-> NoUser, recipeId |-> 0,
     isFavorite |-> {}, body |-> <<>>,
     batch |-> <<>>, failed |-> {}, created |-> {}, cause |-> "none",
     req |-> 0, reply |-> NoReply, thrown |-> [name |-> "", message |-> ""],
     itemId |-> 0, item |-> NoItem, inventory |-> <<>>, prompt |-> <<>>,
     pre |-> FALSE, clean |-> TRUE, chain |-> {}]

Respond(op, status, u, r, fav, body) ==
    [NoResponse EXCEPT !.op = op, !.status = status, !.userId = u,
                       !.recipeId = r, !.isFavorite = fav, !.body = body]

\* A recipe as the storage returns it with its annotation:
\* `{...recipe, isFavorite}`.
Entry(row, fav) ==
    [id |-> row.id, title |-> row.title, ingredients |-> row.ingredients,
     instructions |-> row.instructions, isFavorite |-> fav]

\* `{...recipe, ingredients: JSON.parse(recipe.ingredients), instructions:
\* JSON.parse(recipe.instructions)}`, and whether one of the two throws.
ParseThrows(recipe) ==
    ~JsonParse(recipe.ingredients).ok \/ ~JsonParse(recipe.instructions).ok

FormattedRecipe(recipe) ==
    [recipe EXCEPT !.ingredients = JsonParse(@).value, !.instructions = JsonParse(@).value]

\* `res.json(formatted)` of a read route, or, when a JSON.parse has thrown,
\* its `catch`: `res.status(500).json({ error })`.
Json(answer, found) ==
    IF \E i \in 1..Len(found) : ParseThrows(found[i])
    THEN [answer EXCEPT !.status = 500, !.isFavorite = {}, !.body = <<>>]
    ELSE [answer EXCEPT !.body = [i \in 1..Len(found) |-> FormattedRecipe(found[i])]]

\* History bookkeeping: a request that is in flight on a pair (or on a user's
\* favorites) is no longer `clean` once another request writes that pair; what
\* it saw when it began (`pre`) is then of no use and is dropped.
Watches(s, W) ==
    \/ s.op = "toggle" /\ <<s.userId, s.recipeId>> \in W
    \/ s.op = "favorites" /\ \E w \in W : w[1] = s.userId

Touch(P, p, W) ==
    [q \in Procs |->
        IF q # p /\ Watches(P[q], W)
        THEN [P[q] EXCEPT !.clean = FALSE, !.pre = FALSE]
        ELSE P[q]]

Forget(L, W) == [w \in Pairs |-> IF w \in W THEN {} ELSE L[w]]

PairsOfRecipe(r) == {w \in Pairs : w[2] = r}

InventoryRow(i, u, name, quantity, unit) ==
    [id |-> i, userId |-> u, name |-> name, quantity |-> quantity, unit |-> unit]

Eggs == InventoryRow(1, 1, "egg", "2", "pcs")

\* Kitchens the inventory routes can have built: nothing yet, user 1's eggs,
\* and the eggs with milk and a second user's flour.
Pantry ==
    <<Eggs, InventoryRow(2, 2, "flour", "0.5", "kg"), InventoryRow(3, 1, "milk", "1", "l")>>

Inventories == {<<>>, <<Eggs>>, Pantry}

NoModelCalls == [req \in 1..MaxGenerations |-> 0]

InitStore(inventory, favs) ==
    /\ recipes = [i \in 1..NumRecipes |-> RecipeRow(i, "Stew")]
    /\ recipeSeq = NumRecipes + 1
    /\ userFavorites = favs
    /\ inventoryItems = inventory
    /\ inventorySeq = Len(inventory) + 1
    /\ proc = [p \in Procs |-> Idle]
    /\ response = NoResponse
    /\ lastToggle = [w \in Pairs |-> {}]
    /\ modelCalls = NoModelCalls
    /\ started = 0

\* The state after a first generation round for user 1, whose kitchen holds
\* two eggs: NumRecipes recipes are stored and nothing is a favorite yet.
Init == InitStore(<<Eggs>>, EmptyBag)

\* The same over each of the kitchens, once the last user has made the first
\* recipe a favorite.
Bookmarked == SetToBag({FavRow(NumUsers, 1)})

GenInit == \E inventory \in Inventories : InitStore(inventory, Bookmarked)

\* A request is taken by the first free connection slot.
Receive(p) ==
    /\ started < MaxRequests
    /\ started' = started + 1
    /\ \A q \in Procs : q < p => proc[q].op # "idle"

\* ------------------------------------- PUT /api/recipes/:id/favorite
\* The isFavorite of the stale record: a toggle that returns what it read.
StaleIsFavorite(existing) == existing

\* `return {...recipe, isFavorite: false}` after the delete,
\* `return {...recipe, isFavorite: true}` after the insert.
ToggledIsFavorite(existing) == ~existing

\* A toggle that does not check the recipe.
NeverMissing(tbl, id) == FALSE

\* `const recipe = await this.getRecipe(recipeId, userId); if (!recipe)`
ToggleRecipeMissing(tbl, id) == ~RecipeExists(tbl, id)

\* toggleFavoriteRecipe begins with getRecipe(recipeId, userId): the select of
\* the recipe and, for a recipe that is there, the select of the user's
\* favorite row, whose result toggleFavoriteRecipe overwrites: that read shows
\* in nothing, so it takes no step of its own here.
\* `if (!recipe) return undefined`, which the route answers with 404.
TogglePut(p, u, r) ==
    /\ proc[p].op = "idle"
    /\ Receive(p)
    /\ IF ToggleRecipeMissing(recipes, r)
       THEN /\ response' = Respond("toggle", 404, u, r, {}, <<>>)
            /\ proc' = proc
       ELSE /\ response' = NoResponse
            /\ proc' = [proc EXCEPT ![p] =
                   [Idle EXCEPT !.op = "toggle", !.pc = "existingFavorite",
                                !.userId = u, !.recipeId = r,
                                !.row = FirstRecipe(recipes, r),
                                !.pre = IsFavorite(userFavorites, r, u)]]
    /\ UNCHANGED <<modelCalls, recipes, recipeSeq, userFavorites, inventoryItems, inventorySeq, lastToggle>>

\* `const [existingFavorite] = await db.select()...`
ToggleExistingFavorite(p) ==
    /\ proc[p].op = "toggle" /\ proc[p].pc = "existingFavorite"
    /\ proc' = [proc EXCEPT ![p].pc = "write",
                            ![p].existing =
                                IsFavorite(userFavorites, proc[p].recipeId, proc[p].userId)]
    /\ response' = NoResponse
    /\ UNCHANGED <<modelCalls, recipes, recipeSeq, userFavorites, inventoryItems, inventorySeq, lastToggle, started>>

\* No request wrote the pair while a clean call ran, so the toggle recorded for
\* the pair is the one that had returned before this call began.
ToggleResponse(s, ret, last) ==
    [Respond("toggle", 200, s.userId, s.recipeId, {ret}, <<>>)
        EXCEPT !.pre = s.pre, !.clean = s.clean,
               !.chain = IF s.clean THEN last ELSE {}]

\* `if (existingFavorite) { delete ... isFavorite: false } else { insert ...
\* isFavorite: true }`; an insert for a recipe that is gone violates the
\* foreign key: the storage call rejects and the route answers 500.
ToggleWrite(p) ==
    LET s == proc[p]
        u == s.userId
        r == s.recipeId
        W == {<<u, r>>}
        ret == ToggledIsFavorite(s.existing)
        favs == IF s.existing THEN DeleteFavorite(userFavorites, r, u)
                              ELSE InsertFavorite(userFavorites, r, u)
    IN  /\ s.op = "toggle" /\ s.pc = "write"
        /\ IF s.existing \/ ForeignKeyHolds(recipes, favs)
           THEN /\ userFavorites' = favs
                /\ response' = Json(ToggleResponse(s, ret, lastToggle[<<u, r>>]),
                                    <<Entry(s.row, ret)>>)
                /\ proc' = [Touch(proc, p, W) EXCEPT ![p] = Idle]
                /\ lastToggle' = [lastToggle EXCEPT ![<<u, r>>] =
                       IF s.clean THEN {[pre |-> s.pre, ret |-> ret]} ELSE {}]
           ELSE /\ userFavorites' = userFavorites
                /\ response' = [Respond("toggle", 500, u, r, {}, <<>>)
                                    EXCEPT !.clean = s.clean]
                /\ proc' = [proc EXCEPT ![p] = Idle]
                /\ lastToggle' = lastToggle
        /\ UNCHANGED <<modelCalls, recipes, recipeSeq, inventoryItems, inventorySeq, started>>

\* ------------------------------------------------ storage.deleteRecipe(id)
\* `await db.delete(userFavorites).where(eq(userFavorites.recipeId, id))`
DeleteRecipeFavorites(p, r) ==
    /\ proc[p].op = "idle"
    /\ Receive(p)
    /\ userFavorites' = DeleteFavoritesOfRecipe(userFavorites, r)
    /\ proc' = [Touch(proc, p, PairsOfRecipe(r)) EXCEPT ![p] =
           [Idle EXCEPT !.op = "deleteRecipe", !.pc = "deleteRecipe", !.recipeId = r,
                        !.pre = \E row \in DOMAIN userFavorites : row.recipeId = r]]
    /\ lastToggle' = Forget(lastToggle, PairsOfRecipe(r))
    /\ response' = NoResponse
    /\ UNCHANGED <<modelCalls, recipes, recipeSeq, inventoryItems, inventorySeq>>

\* `await db.delete(recipes).where(eq(recipes.id, id)); return true`; the
\* delete is refused while a user_favorites row still references the recipe.
DeleteRecipeRecipe(p) ==
    LET r == proc[p].recipeId
    IN  /\ proc[p].op = "deleteRecipe" /\ proc[p].pc = "deleteRecipe"
        /\ IF ForeignKeyHolds(DeleteRecipeRow(recipes, r), userFavorites)
           THEN /\ recipes' = DeleteRecipeRow(recipes, r)
                /\ response' = [Respond("deleteRecipe", 200, NoUser, r, {}, <<>>)
                                    EXCEPT !.pre = proc[p].pre]
                /\ proc' = [Touch(proc, p, PairsOfRecipe(r)) EXCEPT ![p] = Idle]
                /\ lastToggle' = Forget(lastToggle, PairsOfRecipe(r))
           ELSE /\ recipes' = recipes
                /\ response' = Respond("deleteRecipe", 500, NoUser, r, {}, <<>>)
                /\ proc' = [proc EXCEPT ![p] = Idle]
                /\ lastToggle' = lastToggle
        /\ UNCHANGED <<modelCalls, recipeSeq, userFavorites, inventoryItems, inventorySeq, started>>

\* ------------------------------------------------ GET /api/recipes/:id
\* An annotation that looks for a favorite row of any user.
AnyoneFavorite(favs, r, u) == \E row \in DOMAIN favs : row.recipeId = r

\* getRecipe: `isFavorite: !!favorite` over the row selected for (id, userId).
AnnotateFavorite(favs, r, u) == IsFavorite(favs, r, u)

\* `const userId = req.isAuthenticated() ? req.user?.id : undefined`, then
\* getRecipe: select the recipe; `if (!recipe || !userId) return recipe`.
GetRecipe(p, u, r) ==
    /\ proc[p].op = "idle"
    /\ Receive(p)
    /\ IF ~RecipeExists(recipes, r)
       THEN /\ response' = Respond("getRecipe", 404, u, r, {}, <<>>)
            /\ proc' = proc
       ELSE IF u = NoUser
       THEN /\ response' = Json(Respond("getRecipe", 200, u, r, {}, <<>>),
                                <<FirstRecipe(recipes, r)>>)
            /\ proc' = proc
       ELSE /\ response' = NoResponse
            /\ proc' = [proc EXCEPT ![p] =
                   [Idle EXCEPT !.op = "getRecipe", !.pc = "favorite",
                                !.userId = u, !.recipeId = r,
                                !.row = FirstRecipe(recipes, r)]]
    /\ UNCHANGED <<modelCalls, recipes, recipeSeq, userFavorites, inventoryItems, inventorySeq, lastToggle>>

\* getRecipe: select the favorite row and return the annotated recipe.
GetRecipeFavorite(p) ==
    LET s == proc[p]
        fav == AnnotateFavorite(userFavorites, s.recipeId, s.userId)
    IN  /\ s.op = "getRecipe" /\ s.pc = "favorite"
        /\ response' = Json(Respond("getRecipe", 200, s.userId, s.recipeId, {fav}, <<>>),
                            <<Entry(s.row, fav)>>)
        /\ proc' = [proc EXCEPT ![p] = Idle]
        /\ UNCHANGED <<modelCalls, recipes, recipeSeq, userFavorites, inventoryItems, inventorySeq, lastToggle, started>>

\* ------------------------------------------------ GET /api/recipes/favorites
FavoritesResponse(s, out) ==
    Json([Respond("favorites", 200, s.userId, 0, {}, <<>>) EXCEPT !.clean = s.clean], out)

\* getFavoriteRecipes: select the user's favorite rows;
\* `if (favorites.length === 0) return []`; `favorites.map(f => f.recipeId)`.
GetFavorites(p, u) ==
    LET rows == FavoriteRowsOf(userFavorites, u)
        s == [Idle EXCEPT !.op = "favorites", !.pc = "loop", !.userId = u]
    IN  /\ proc[p].op = "idle"
        /\ Receive(p)
        /\ IF rows = EmptyBag
           THEN /\ response' = FavoritesResponse(s, <<>>)
                /\ proc' = proc
           ELSE /\ response' = NoResponse
                /\ \E order \in RowOrders(rows) :
                     proc' = [proc EXCEPT ![p] =
                        [s EXCEPT !.recipeIds =
                            [i \in 1..Len(order) |-> order[i].recipeId]]]
        /\ UNCHANGED <<modelCalls, recipes, recipeSeq, userFavorites, inventoryItems, inventorySeq, lastToggle>>

\* One turn of `for (const id of recipeIds) { const recipe = await
\* this.getRecipe(id); if (recipe) favoriteRecipes.push({...recipe,
\* isFavorite: true}) }`, and the return after the last one.
GetFavoritesLoop(p) ==
    LET s == proc[p]
        id == Head(s.recipeIds)
        found == SelectRecipe(recipes, id)
        out == IF Len(found) > 0 THEN Append(s.out, Entry(found[1], TRUE)) ELSE s.out
    IN  /\ s.op = "favorites" /\ s.pc = "loop"
        /\ IF Len(s.recipeIds) = 1
           THEN /\ response' = FavoritesResponse(s, out)
                /\ proc' = [proc EXCEPT ![p] = Idle]
           ELSE /\ response' = NoResponse
                /\ proc' = [proc EXCEPT ![p].recipeIds = Tail(s.recipeIds),
                                        ![p].out = out]
        /\ UNCHANGED <<modelCalls, recipes, recipeSeq, userFavorites, inventoryItems, inventorySeq, lastToggle, started>>

\* The requests that write the favorites relation and the recipes.
Next ==
    \E p \in Procs :
        \/ \E u \in Users, r \in RecipeIds : TogglePut(p, u, r)
        \/ ToggleExistingFavorite(p)
        \/ ToggleWrite(p)
        \/ \E r \in RecipeIds : DeleteRecipeFavorites(p, r)
        \/ DeleteRecipeRecipe(p)

Spec == Init /\ [][Next]_vars

\* The writers, and readers of one recipe.
RecipeNext ==
    \/ Next
    \/ \E p \in Procs :
          \/ \E u \in Users \cup {NoUser}, r \in RecipeIds : GetRecipe(p, u, r)
          \/ GetRecipeFavorite(p)

RecipeSpec == Init /\ [][RecipeNext]_vars

\* The writers, and readers of a user's favorites.
FavoritesNext ==
    \/ Next
    \/ \E p \in Procs :
          \/ \E u \in Users : GetFavorites(p, u)
          \/ GetFavoritesLoop(p)

FavoritesSpec == Init /\ [][FavoritesNext]_vars

\* ------------------------------------------------ generateRecipes
\* A property that an object of the reply does not have, and JSON null.
Missing == "<undefined>"
JsonNull == "<null>"

\* "Please suggest 3 different recipes": the number the prompt asks for.
BatchSize == 3

Titles == <<"Omelette", "Frittata", "Custard", "Meringue", "Souffle">>

\* A recipe object of the model's reply, by the properties that vary here: the
\* three texts and the unit of its ingredient (the numbers, `instructions`
\* and `tags` conform throughout).
Ingredient(unit) == [name |-> "egg", quantity |-> "2", unit |-> unit, inInventory |-> TRUE]

Instruction(step, instruction) == [step |-> step, instruction |-> instruction]

RecipeObject(title, description, difficulty, unit) ==
    [title |-> title, description |-> description, difficulty |-> difficulty,
     ingredients |-> <<Ingredient(unit)>>,
     instructions |-> <<Instruction(1, "Whisk the eggs"), Instruction(2, "Fry")>>]

Candidate(t) == RecipeObject(t, "Whisk and fry", "Easy", "pcs")

\* Replies of at most MaxBatch recipes; the i-th carries the i-th title or none.
Batches ==
    UNION {{[i \in 1..n |-> Candidate(IF i \in bad THEN Missing ELSE Titles[i])]
                : bad \in SUBSET (1..n)} : n \in 0..MaxBatch}

\* The ways one recipe object departs from Candidate, in one property.
Departures ==
    {<<"none", "">>}
    \cup {<<f, v>> : f \in {"title", "description", "difficulty"}, v \in {"", Missing}}
    \cup {<<"unit", v>> : v \in {"", JsonNull, Missing}}

Departed(t, d) ==
    RecipeObject(IF d[1] = "title" THEN d[2] ELSE t,
                 IF d[1] = "description" THEN d[2] ELSE "Whisk and fry",
                 IF d[1] = "difficulty" THEN d[2] ELSE "Easy",
                 IF d[1] = "unit" THEN d[2] ELSE "pcs")

RecipeLists ==
    UNION {{[i \in 1..n |-> Departed(Titles[i], ds[i])] : ds \in [1..n -> Departures]}
                : n \in 0..MaxBatch}

\* A JSON value as JSON.parse returns it, by its type, its elements when it
\* is an array, and its property `recipes` (undefined on an array).
JsonValue(type, items) == [type |-> type, items |-> items]

Undefined == JsonValue("undefined", <<>>)

Parsed(type, items, prop) == [type |-> type, items |-> items, recipes |-> prop]

BareArray(items) == Parsed("array", items, Undefined)

RecipesObject(prop) == Parsed("object", <<>>, prop)

\* What `openai.chat.completions.create` can give: a rejected call, or a
\* message whose content is empty, is no JSON, or is the text of a JSON value.
Completion(kind, content, value) == [kind |-> kind, content |-> content, value |-> value]

NotJson == "{not json"
JsonText == "<json>"

OtherCompletions ==
    {Completion("error", "", RecipesObject(Undefined)),
     Completion("content", "", RecipesObject(Undefined)),
     Completion("content", NotJson, RecipesObject(Undefined)),
     Completion("content", JsonText, RecipesObject(Undefined)),
     Completion("content", JsonText, RecipesObject(JsonValue("null", <<>>))),
     Completion("content", JsonText, RecipesObject(JsonValue("string", <<>>)))}

Bare(lists) == {Completion("content", JsonText, BareArray(items)) : items \in lists}

Wrapped(lists) ==
    {Completion("content", JsonText, RecipesObject(JsonValue("array", items))) :
        items \in lists}

\* The replies of a model that is asked for a JSON object
\* (`response_format: { type: "json_object" }`).
Completions == OtherCompletions \cup Wrapped(Batches)

\* The replies the validator is tried on, bare arrays too.
Replies == OtherCompletions \cup Wrapped(RecipeLists) \cup Bare(RecipeLists)

\* z.string(): any string, the empty one too; not null, not undefined.
ZString(v) == v \notin {Missing, JsonNull}

\* z.string().nullable(): a string or null.
ZStringNullable(v) == v # Missing

\* A transform that hands the value on.
UnitKept(val) == val

\* `.transform(val => val || "")`
UnitTransform(val) == IF val = JsonNull \/ val = "" THEN "" ELSE val

\* RecipeSchema: z.object({title: z.string(), description: z.string(), ...,
\* ingredients: z.array(z.object({..., unit: z.string().nullable()...}))}).
RecipeSchemaAccepts(c) ==
    /\ ZString(c.title) /\ ZString(c.description) /\ ZString(c.difficulty)
    /\ \A i \in 1..Len(c.ingredients) :
          /\ ZString(c.ingredients[i].name) /\ ZString(c.ingredients[i].quantity)
          /\ ZStringNullable(c.ingredients[i].unit)

\* The output of RecipeSchema for an object it accepts.
RecipeSchemaOutput(c) ==
    [c EXCEPT !.ingredients =
        [i \in 1..Len(c.ingredients) |->
            [c.ingredients[i] EXCEPT !.unit = UnitTransform(c.ingredients[i].unit)]]]

\* What a throw carries.
Thrown(name, message) == [name |-> name, message |-> message]

NoError == Thrown("", "")

Returned(items) == [ok |-> TRUE, recipes |-> items, error |-> NoError]

Failure(error) == [ok |-> FALSE, recipes |-> <<>>, error |-> error]

\* An array schema that looks at its first element only.
FirstElementAccepted(items) == Len(items) = 0 \/ RecipeSchemaAccepts(items[1])

\* z.array(RecipeSchema): every element has to pass.
EveryElementAccepted(items) == \A i \in 1..Len(items) : RecipeSchemaAccepts(items[i])

\* A validator that keeps the recipes that pass and drops the others.
ParseValidSubset(x) ==
    IF x.type # "array"
    THEN Failure(Thrown("ZodError", "[invalid_type]"))
    ELSE Returned([i \in 1..Len(SelectSeq(x.items, RecipeSchemaAccepts)) |->
                      RecipeSchemaOutput(SelectSeq(x.items, RecipeSchemaAccepts)[i])])

\* An array schema of a fixed length, `.length(BatchSize)`.
ParseExactlyThree(x) ==
    IF x.type = "array" /\ Len(x.items) = BatchSize /\ EveryElementAccepted(x.items)
    THEN Returned([i \in 1..Len(x.items) |-> RecipeSchemaOutput(x.items[i])])
    ELSE Failure(Thrown("ZodError", "[too_small]"))

\* RecipesResponseSchema.parse(recipesArray): z.array(RecipeSchema).
RecipesResponseParse(x) ==
    IF x.type = "array" /\ EveryElementAccepted(x.items)
    THEN Returned([i \in 1..Len(x.items) |-> RecipeSchemaOutput(x.items[i])])
    ELSE Failure(Thrown("ZodError", "[invalid_type]"))

\* undefined, null (and "", 0, false) are falsy; an array or an object is not.
Truthy(v) == v.type \notin {"undefined", "null"}

\* A reading of the property alone.
RecipesProperty(parsedContent) == parsedContent.recipes

\* `const recipesArray = parsedContent.recipes || parsedContent`
RecipesArray(parsedContent) ==
    IF Truthy(parsedContent.recipes)
    THEN parsedContent.recipes
    ELSE JsonValue(parsedContent.type, parsedContent.items)

\* `catch (error) { throw new Error(`Failed to generate recipes: ${message}`) }`
Rethrown(res) ==
    IF res.ok THEN res
    ELSE Failure(Thrown("Error", "Failed to generate recipes: " \o res.error.message))

\* generateRecipes from the reply on: `if (!content) throw`, JSON.parse,
\* `parsedContent.recipes || parsedContent`, RecipesResponseSchema.parse; every
\* throw is caught and rethrown as one Error.
GenerateRecipes(c) ==
    Rethrown(
        IF c.kind = "error" THEN Failure(Thrown("APIError", "Connection error."))
        ELSE IF c.content = "" THEN Failure(Thrown("Error", "Empty response from OpenAI"))
        ELSE IF c.content = NotJson THEN Failure(Thrown("SyntaxError", "Unexpected token n"))
        ELSE RecipesResponseParse(RecipesArray(c.value)))

\* The reason a reply is no valid batch ("none" when it is one).
Conforms(c) ==
    /\ {c.title, c.description, c.difficulty} \cap {Missing, JsonNull} = {}
    /\ \A i \in 1..Len(c.ingredients) : c.ingredients[i].unit # Missing

ItemsOf(c) ==
    IF c.value.type = "array" THEN c.value.items ELSE c.value.recipes.items

FailureCause(c) ==
    IF c.kind = "error" THEN "transport"
    ELSE IF c.content = "" THEN "empty"
    ELSE IF c.content = NotJson THEN "malformed"
    ELSE IF \/ c.value.type # "array" /\ c.value.recipes.type # "array"
            \/ \E i \in 1..Len(ItemsOf(c)) : ~Conforms(ItemsOf(c)[i])
    THEN "schema"
    ELSE "none"

\* ------------------------------------------------ POST /api/recipes/generate
\* A select of the inventory without its where clause.
GetInventoryOfAnyone(tbl, u) == tbl

\* db.select().from(inventoryItems).where(eq(inventoryItems.userId, userId))
GetInventoryItems(tbl, u) == SelectSeq(tbl, LAMBDA row : row.userId = u)

Pending == Entry(StoredRecipe(-1, "", NoText, NoText), FALSE)
Null == Entry(NoRecipe, FALSE)

\* A filter that stops at the first failed save.
UntilFirstNull(saved) ==
    LET firstNull == {i \in 1..Len(saved) : saved[i] = Null}
        n == IF firstNull = {} THEN Len(saved)
             ELSE (CHOOSE i \in firstNull : \A j \in firstNull : i <= j) - 1
    IN  SubSeq(saved, 1, n)

\* `savedRecipes.filter(recipe => recipe !== null)`
ValidRecipes(saved) == SelectSeq(saved, LAMBDA e : e # Null)

GenerateResponse(s, status, body) ==
    [Respond("generate", status, s.userId, 0, {}, body)
        EXCEPT !.batch = s.batch, !.failed = s.failed, !.created = s.created,
               !.cause = s.cause, !.req = s.req]

\* The route reads the user's inventory; `if (inventoryItems.length === 0)`
\* it answers 400, else it calls generateRecipes, which awaits the model.
GeneratePost(p, u) ==
    LET s == [Idle EXCEPT !.op = "generate", !.pc = "completion", !.userId = u,
                          !.req = started + 1]
    IN  /\ proc[p].op = "idle"
        /\ started < MaxGenerations
        /\ started' = started + 1
        /\ \A q \in Procs : q < p => proc[q].op # "idle"
        /\ IF Len(GetInventoryItems(inventoryItems, u)) = 0
           THEN /\ response' = GenerateResponse(s, 400, <<>>)
                /\ proc' = proc
           ELSE /\ response' = NoResponse
                /\ proc' = [proc EXCEPT ![p] = s]
        /\ UNCHANGED <<modelCalls, recipes, recipeSeq, userFavorites, inventoryItems, inventorySeq, lastToggle>>

\* A handler that calls generateRecipes again when it has thrown.
RetryAfterThrow(s) == [s EXCEPT !.pc = "completion"]

\* `catch (error) { ... res.status(500).json(...) }`: the handler is over.
AfterThrow(s) == Idle

\* The model call settles and generateRecipes returns or throws; the route
\* answers 500 on a throw, and otherwise starts one createRecipe per recipe
\* (`Promise.all(recipes.map(async ...))`).
GenerateCompletion(p, c) ==
    LET res == GenerateRecipes(c)
        s == [proc[p] EXCEPT !.cause = FailureCause(c), !.batch = res.recipes,
                             !.saved = [i \in 1..Len(res.recipes) |-> Pending]]
    IN  /\ proc[p].op = "generate" /\ proc[p].pc = "completion"
        /\ modelCalls' = [modelCalls EXCEPT ![s.req] = @ + 1]
        /\ IF ~res.ok
           THEN /\ response' = GenerateResponse(s, 500, <<>>)
                /\ proc' = [proc EXCEPT ![p] = AfterThrow(s)]
           ELSE IF Len(res.recipes) = 0
           THEN /\ response' = GenerateResponse(s, 200, <<>>)
                /\ proc' = [proc EXCEPT ![p] = Idle]
           ELSE /\ response' = NoResponse
                /\ proc' = [proc EXCEPT ![p] = [s EXCEPT !.pc = "saving"]]
        /\ UNCHANGED <<recipes, recipeSeq, userFavorites, inventoryItems, inventorySeq, lastToggle, started>>

\* `{...recipe, ingredients: JSON.stringify(recipe.ingredients), instructions:
\* JSON.stringify(recipe.instructions)}`
RecipeToSave(recipe) ==
    [recipe EXCEPT !.ingredients = StringifyIngredients(@),
                   !.instructions = StringifyInstructions(@)]

\* An insert that takes the place of the rows already there.
CreateReplacing(tbl, row) == <<row>>

\* `db.insert(recipes).values(insertRecipe).returning()`
CreateRecipe(tbl, row) == Append(tbl, row)

\* One `storage.createRecipe(recipeToSave)` settles: the row is inserted and
\* returned with `isFavorite: false`, or the insert throws and the callback
\* returns null. Once all have settled the route filters and answers.
GenerateSave(p, i, stored) ==
    LET s == proc[p]
        recipeToSave == RecipeToSave(s.batch[i])
        row == StoredRecipe(recipeSeq, recipeToSave.title, recipeToSave.ingredients,
                            recipeToSave.instructions)
        t == IF stored
             THEN [s EXCEPT !.saved[i] = Entry(row, FALSE), !.created = @ \cup {row.id}]
             ELSE [s EXCEPT !.saved[i] = Null, !.failed = @ \cup {i}]
    IN  /\ s.op = "generate" /\ s.pc = "saving"
        /\ i \in 1..Len(s.saved) /\ s.saved[i] = Pending
        /\ IF stored
           THEN /\ recipes' = CreateRecipe(recipes, row)
                /\ recipeSeq' = recipeSeq + 1
           ELSE UNCHANGED <<recipes, recipeSeq>>
        /\ IF \A j \in 1..Len(t.saved) : t.saved[j] # Pending
           THEN /\ response' = GenerateResponse(t, 200, ValidRecipes(t.saved))
                /\ proc' = [proc EXCEPT ![p] = Idle]
           ELSE /\ response' = NoResponse
                /\ proc' = [proc EXCEPT ![p] = t]
        /\ UNCHANGED <<modelCalls, userFavorites, inventoryItems, inventorySeq, lastToggle,
                       started>>

GenNext ==
    \E p \in Procs :
        \/ \E u \in Users : GeneratePost(p, u)
        \/ \E c \in Completions : GenerateCompletion(p, c)
        \/ \E i \in 1..MaxBatch, stored \in BOOLEAN : GenerateSave(p, i, stored)

GenSpec == GenInit /\ [][GenNext]_vars

\* ------------------------------------------------ GET /api/recipes
\* getRecipes: `db.select().from(recipes)`; the route answers with every row,
\* whoever asks (the handler does not look at the request).
GetRecipes(p, u) ==
    /\ proc[p].op = "idle"
    /\ Receive(p)
    /\ response' = Json(Respond("getRecipes", 200, u, 0, {}, <<>>), recipes)
    /\ proc' = proc
    /\ UNCHANGED <<modelCalls, recipes, recipeSeq, userFavorites, inventoryItems, inventorySeq, lastToggle>>

\* A kitchen of two users, one generation, and readers of the recipes.
KitchenInit == InitStore(Pantry, Bookmarked)

KitchenNext ==
    \/ GenNext
    \/ \E p \in Procs :
          \/ \E u \in Users \cup {NoUser} : GetRecipes(p, u)
          \/ \E u \in Users \cup {NoUser}, r \in 1..recipeSeq : GetRecipe(p, u, r)
          \/ GetRecipeFavorite(p)

KitchenSpec == KitchenInit /\ [][KitchenNext]_vars

\* ------------------------------------------------ /api/inventory/:id
\* db.select().from(inventoryItems).where(eq(inventoryItems.id, id)), first row
GetInventoryItem(tbl, id) ==
    LET rows == SelectSeq(tbl, LAMBDA row : row.id = id)
    IN  IF Len(rows) = 0 THEN NoItem ELSE rows[1]

\* A check that the item is there, whoever owns it.
ResolvesForAnyone(item, userId) == item # NoItem

\* The negation of `!item || item.userId !== userId`.
Resolves(item, userId) == item # NoItem /\ item.userId = userId

\* A request body of the inventory form: the user id is the client's to fill.
FormBody(name, v) == [name |-> name, quantity |-> "3", unit |-> "kg", userId |-> v]

Bodies == {FormBody("rice", NumUsers), FormBody("", 1)}

\* inventoryFormSchema.parse(req.body): name and unit of at least one character.
InventoryFormAccepts(body) == body.name # "" /\ body.unit # ""

\* An item stored with the user id its body carries.
ItemAsSent(body, userId) == body

\* `{...validatedItem, userId}`
ItemWithUserId(body, userId) == [body EXCEPT !.userId = userId]

\* db.update(inventoryItems).set(updateItem).where(eq(inventoryItems.id, id))
UpdateInventoryItem(tbl, id, updateItem) ==
    [i \in 1..Len(tbl) |->
        IF tbl[i].id = id
        THEN InventoryRow(id, updateItem.userId, updateItem.name,
                          updateItem.quantity, updateItem.unit)
        ELSE tbl[i]]

\* db.delete(inventoryItems).where(eq(inventoryItems.id, id))
DeleteInventoryItem(tbl, id) == SelectSeq(tbl, LAMBDA row : row.id # id)

\* An answer of an inventory route, with the row its lookup had found.
InventoryResponse(op, status, u, id, found) ==
    [Respond(op, status, u, 0, {}, <<>>) EXCEPT !.itemId = id, !.item = found]

\* GET /api/inventory/:id
InventoryGet(p, u, id) ==
    LET item == GetInventoryItem(inventoryItems, id)
    IN  /\ proc[p].op = "idle"
        /\ Receive(p)
        /\ response' = InventoryResponse("inventoryGet",
                           IF Resolves(item, u) THEN 200 ELSE 404, u, id, item)
        /\ proc' = proc
        /\ UNCHANGED <<modelCalls, recipes, recipeSeq, userFavorites, inventoryItems,
                       inventorySeq, lastToggle>>

\* POST /api/inventory: parse the body (400), insert the item for the user.
InventoryPost(p, u, body) ==
    LET item == ItemWithUserId(body, u)
        row == InventoryRow(inventorySeq, item.userId, item.name, item.quantity, item.unit)
    IN  /\ proc[p].op = "idle"
        /\ Receive(p)
        /\ proc' = proc
        /\ IF InventoryFormAccepts(body)
           THEN /\ inventoryItems' = Append(inventoryItems, row)
                /\ inventorySeq' = inventorySeq + 1
                /\ response' = InventoryResponse("inventoryPost", 201, u, row.id, row)
           ELSE /\ UNCHANGED <<inventoryItems, inventorySeq>>
                /\ response' = InventoryResponse("inventoryPost", 400, u, 0, NoItem)
        /\ UNCHANGED <<modelCalls, recipes, recipeSeq, userFavorites, lastToggle>>

\* PUT /api/inventory/:id up to its update: look the item up (404), parse the
\* body (400), and call updateInventoryItem.
InventoryPut(p, u, id, body) ==
    LET item == GetInventoryItem(inventoryItems, id)
    IN  /\ proc[p].op = "idle"
        /\ Receive(p)
        /\ IF ~Resolves(item, u)
           THEN /\ response' = InventoryResponse("inventoryPut", 404, u, id, item)
                /\ proc' = proc
           ELSE IF ~InventoryFormAccepts(body)
           THEN /\ response' = InventoryResponse("inventoryPut", 400, u, id, item)
                /\ proc' = proc
           ELSE /\ response' = NoResponse
                /\ proc' = [proc EXCEPT ![p] =
                       [Idle EXCEPT !.op = "inventoryPut", !.pc = "update", !.userId = u,
                                    !.itemId = id, !.item = item,
                                    !.form = ItemWithUserId(body, u)]]
        /\ UNCHANGED <<modelCalls, recipes, recipeSeq, userFavorites, inventoryItems,
                       inventorySeq, lastToggle>>

\* The update settles: `if (!updatedItem)` 404, else the updated row.
InventoryPutUpdate(p) ==
    LET s == proc[p]
        updated == GetInventoryItem(inventoryItems, s.itemId) # NoItem
    IN  /\ s.op = "inventoryPut" /\ s.pc = "update"
        /\ inventoryItems' = UpdateInventoryItem(inventoryItems, s.itemId, s.form)
        /\ response' = InventoryResponse("inventoryPut", IF updated THEN 200 ELSE 404,
                                         s.userId, s.itemId, s.item)
        /\ proc' = [proc EXCEPT ![p] = Idle]
        /\ UNCHANGED <<modelCalls, recipes, recipeSeq, userFavorites, inventorySeq,
                       lastToggle, started>>

\* DELETE /api/inventory/:id up to its delete: look the item up (404).
InventoryDelete(p, u, id) ==
    LET item == GetInventoryItem(inventoryItems, id)
    IN  /\ proc[p].op = "idle"
        /\ Receive(p)
        /\ IF ~Resolves(item, u)
           THEN /\ response' = InventoryResponse("inventoryDelete", 404, u, id, item)
                /\ proc' = proc
           ELSE /\ response' = NoResponse
                /\ proc' = [proc EXCEPT ![p] =
                       [Idle EXCEPT !.op = "inventoryDelete", !.pc = "delete", !.userId = u,
                                    !.itemId = id, !.item = item]]
        /\ UNCHANGED <<modelCalls, recipes, recipeSeq, userFavorites, inventoryItems,
                       inventorySeq, lastToggle>>

\* The delete settles: deleteInventoryItem returns true, the route answers 204.
InventoryDeleteDelete(p) ==
    LET s == proc[p]
    IN  /\ s.op = "inventoryDelete" /\ s.pc = "delete"
        /\ inventoryItems' = DeleteInventoryItem(inventoryItems, s.itemId)
        /\ response' = InventoryResponse("inventoryDelete", 204, s.userId, s.itemId, s.item)
        /\ proc' = [proc EXCEPT ![p] = Idle]
        /\ UNCHANGED <<modelCalls, recipes, recipeSeq, userFavorites, inventorySeq,
                       lastToggle, started>>

InventoryInit == InitStore(Pantry, EmptyBag)

\* The ids a request can name: those given out so far and the next one.
InventoryNext ==
    \E p \in Procs :
        \/ \E u \in Users, id \in 1..inventorySeq : InventoryGet(p, u, id)
        \/ \E u \in Users, body \in Bodies : InventoryPost(p, u, body)
        \/ \E u \in Users, id \in 1..inventorySeq, body \in Bodies : InventoryPut(p, u, id, body)
        \/ InventoryPutUpdate(p)
        \/ \E u \in Users, id \in 1..inventorySeq : InventoryDelete(p, u, id)
        \/ InventoryDeleteDelete(p)

InventorySpec == InventoryInit /\ [][InventoryNext]_vars

\* ------------------------------------------------ the validator on its own
\* generateRecipes has its reply in hand.
ParseInit ==
    \E c \in Replies :
        /\ recipes = [i \in 1..NumRecipes |-> RecipeRow(i, "Stew")]
        /\ recipeSeq = NumRecipes + 1
        /\ userFavorites = EmptyBag
        /\ inventoryItems = <<Eggs>>
        /\ inventorySeq = 2
        /\ proc = [p \in Procs |->
              IF p = 1
              THEN [Idle EXCEPT !.op = "generateRecipes", !.pc = "content",
                                !.userId = 1, !.reply = c]
              ELSE Idle]
        /\ response = NoResponse
        /\ lastToggle = [w \in Pairs |-> {}]
        /\ modelCalls = NoModelCalls
        /\ started = 1

\* generateRecipes runs from `response.choices[0].message.content` to its
\* return or its throw.
ParseReply(p) ==
    LET c == proc[p].reply
        res == GenerateRecipes(c)
    IN  /\ proc[p].op = "generateRecipes" /\ proc[p].pc = "content"
        /\ response' = [NoResponse EXCEPT !.op = "generateRecipes", !.userId = proc[p].userId,
                                          !.reply = c, !.batch = res.recipes,
                                          !.thrown = res.error, !.cause = FailureCause(c),
                                          !.status = IF res.ok THEN 200 ELSE 500]
        /\ proc' = [proc EXCEPT ![p] = Idle]
        /\ UNCHANGED <<modelCalls, recipes, recipeSeq, userFavorites, inventoryItems, inventorySeq,
                       lastToggle, started>>

ParseNext == \E p \in Procs : ParseReply(p)

ParseSpec == ParseInit /\ [][ParseNext]_vars

\* ------------------------------------------------ the stored columns
\* Validated recipes whose ingredients and instructions vary: up to two of
\* each, in either order, repeats included.
Salt == [name |-> "salt", quantity |-> "1", unit |-> "", inInventory |-> FALSE]

Larder == {Ingredient("pcs"), Salt}

Steps == {Instruction(1, "Whisk the eggs"), Instruction(2, "Fry")}

Dish(ingredients, instructions) ==
    [Candidate(Titles[1]) EXCEPT !.ingredients = ingredients, !.instructions = instructions]

Dishes ==
    {Dish(a, b) : a \in UNION {[1..n -> Larder] : n \in 0..2},
                  b \in UNION {[1..n -> Steps] : n \in 0..2}}

\* generateRecipes has returned one validated recipe to the route, which is
\* about to store it.
NormalizerInit ==
    \E dish \in Dishes :
        /\ recipes = [i \in 1..NumRecipes |-> RecipeRow(i, "Stew")]
        /\ recipeSeq = NumRecipes + 1
        /\ userFavorites = Bookmarked
        /\ inventoryItems = <<Eggs>>
        /\ inventorySeq = 2
        /\ proc = [p \in Procs |->
              IF p = 1
              THEN [Idle EXCEPT !.op = "generate", !.pc = "saving", !.userId = 1,
                                !.req = 1, !.batch = <<RecipeSchemaOutput(dish)>>,
                                !.saved = <<Pending>>]
              ELSE Idle]
        /\ response = NoResponse
        /\ lastToggle = [w \in Pairs |-> {}]
        /\ modelCalls = [NoModelCalls EXCEPT ![1] = 1]
        /\ started = 1

\* The callers of the read routes here: nobody, and the last user.
Readers == {NoUser, NumUsers}

\* The save, and readers of the recipe it stores and of the one before it.
NormalizerNext ==
    \E p \in Procs :
        \/ \E i \in 1..MaxBatch, stored \in BOOLEAN : GenerateSave(p, i, stored)
        \/ \E u \in Readers : GetRecipes(p, u)
        \/ \E u \in Readers, r \in NumRecipes..(NumRecipes + 1) : GetRecipe(p, u, r)
        \/ GetRecipeFavorite(p)

NormalizerSpec == NormalizerInit /\ [][NormalizerNext]_vars

\* A store whose last recipe has a column that is no JSON, and which the
\* last user has made a favorite.
CorruptRecipe(i, column) ==
    StoredRecipe(i, "Stew",
                 IF column = "ingredients" THEN BrokenText ELSE StewIngredients,
                 IF column = "instructions" THEN BrokenText ELSE StewInstructions)

CorruptInit ==
    \E column \in {"ingredients", "instructions"} :
        /\ recipes = [i \in 1..NumRecipes |->
              IF i = NumRecipes THEN CorruptRecipe(i, column) ELSE RecipeRow(i, "Stew")]
        /\ recipeSeq = NumRecipes + 1
        /\ userFavorites = SetToBag({FavRow(NumUsers, NumRecipes)})
        /\ inventoryItems = <<Eggs>>
        /\ inventorySeq = 2
        /\ proc = [p \in Procs |-> Idle]
        /\ response = NoResponse
        /\ lastToggle = [w \in Pairs |-> {}]
        /\ modelCalls = NoModelCalls
        /\ started = 0

\* The four routes that answer with recipes, called by the user who has the
\* favorite, the reads by nobody too.
CorruptNext ==
    \E p \in Procs :
        \/ \E r \in RecipeIds : TogglePut(p, NumUsers, r)
        \/ ToggleExistingFavorite(p)
        \/ ToggleWrite(p)
        \/ \E u \in Readers : GetRecipes(p, u)
        \/ \E u \in Readers, r \in RecipeIds : GetRecipe(p, u, r)
        \/ GetRecipeFavorite(p)
        \/ GetFavorites(p, NumUsers)
        \/ GetFavoritesLoop(p)

CorruptSpec == CorruptInit /\ [][CorruptNext]_vars

\* ------------------------------------------------ the prompt on its own
\* A text is the sequence of its lines, a line its indentation and the rest.
Line(indent, text) == [indent |-> indent, text |-> text]

\* The indentation of the template literal.
Indent == 6

\* An entry formatted without its unit.
FormatWithoutUnit(item) == item.name \o ": " \o item.quantity

\* `${item.name}: ${item.quantity} ${item.unit}`
FormatItem(item) == item.name \o ": " \o item.quantity \o " " \o item.unit

\* `.join("\n")`: the parts one per line; of no parts, the empty string.
JoinLines(parts) ==
    IF Len(parts) = 0 THEN <<Line(0, "")>>
    ELSE [i \in 1..Len(parts) |-> Line(0, parts[i])]

\* `inventoryItems.map(item => ...).join("\n")`
FormattedItems(items) == JoinLines([i \in 1..Len(items) |-> FormatItem(items[i])])

\* The template up to `${formattedItems}` and from it on (of the output-shape
\* example, the first and the last line).
PromptHead ==
    <<Line(0, ""),
      Line(Indent, "You are a professional chef specializing in creating recipes based on available ingredients."),
      Line(Indent, ""),
      Line(Indent, "I have the following ingredients in my kitchen inventory:")>>

PromptTail ==
    <<Line(Indent, ""),
      Line(Indent, "Please suggest 3 different recipes I can make with these ingredients. Some ingredients might be missing, but try to maximize the use of what I have."),
      Line(Indent, ""),
      Line(Indent, "IMPORTANT: Format your response as a JSON object with a \"recipes\" array containing recipe objects with the following structure:"),
      Line(Indent, ""),
      Line(Indent, "IMPORTANT: Always provide a \"unit\" property for each ingredient, using \"\" (empty string) if no unit is needed."),
      Line(4, "")>>

\* `      ${formattedItems}`: the first line of the text goes after the
\* indentation of the template's line, the others start their own line.
Interpolate(indent, text) ==
    [i \in 1..Len(text) |-> IF i = 1 THEN Line(indent + text[1].indent, text[1].text) ELSE text[i]]

Prompt(items) == PromptHead \o Interpolate(Indent, FormattedItems(items)) \o PromptTail

\* The rows the inventory routes can have stored for a kitchen.
Rice == InventoryRow(4, 1, "rice", "3", "kg")

Shelf == {Pantry[i] : i \in 1..Len(Pantry)} \cup {Rice}

InventorySequences == UNION {[1..n -> Shelf] : n \in 0..MaxItems}

\* generateRecipes has been called with an inventory.
PromptInit ==
    \E items \in InventorySequences :
        /\ recipes = [i \in 1..NumRecipes |-> RecipeRow(i, "Stew")]
        /\ recipeSeq = NumRecipes + 1
        /\ userFavorites = EmptyBag
        /\ inventoryItems = Pantry
        /\ inventorySeq = Len(Pantry) + 1
        /\ proc = [p \in Procs |->
              IF p = 1
              THEN [Idle EXCEPT !.op = "generateRecipes", !.pc = "prompt",
                                !.userId = 1, !.inventory = items]
              ELSE Idle]
        /\ response = NoResponse
        /\ lastToggle = [w \in Pairs |-> {}]
        /\ modelCalls = NoModelCalls
        /\ started = 1

\* generateRecipes builds `prompt`, with which it then calls the model.
PromptBuild(p) ==
    /\ proc[p].op = "generateRecipes" /\ proc[p].pc = "prompt"
    /\ response' = [NoResponse EXCEPT !.op = "prompt", !.userId = proc[p].userId,
                                      !.inventory = proc[p].inventory,
                                      !.prompt = Prompt(proc[p].inventory)]
    /\ proc' = [proc EXCEPT ![p] = Idle]
    /\ UNCHANGED <<modelCalls, recipes, recipeSeq, userFavorites, inventoryItems, inventorySeq,
                   lastToggle, started>>

PromptNext == \E p \in Procs : PromptBuild(p)

PromptSpec == PromptInit /\ [][PromptNext]_vars

\* ====================================================================
\* Properties
\* ====================================================================
Rows(favs, u, r) == CopiesIn(FavRow(u, r), favs)

Favorited(u, r) == Rows(userFavorites, u, r) > 0

StoredIds == {recipes[i].id : i \in 1..Len(recipes)}

AllPairs == Users \X RecipeIds

\* C1: in every reachable state the favorites relation holds at most one row
\* for any (userId, recipeId) pair, also when two toggles of the same pair
\* interleave between their existence check and their insert.
C1_AtMostOneRowPerPair ==
    \A w \in AllPairs : Rows(userFavorites, w[1], w[2]) <= 1

\* C2: two toggles of the same pair that run one after the other, with no
\* other write to the pair from the start of the first to the end of the
\* second, return the pair to its original favorite state, and the second
\* returns the negation of what the first returned.
C2_ToggleInvolution ==
    (response.op = "toggle" /\ response.status = 200) =>
        \A first \in response.chain :
            /\ response.isFavorite = {~first.ret}
            /\ Favorited(response.userId, response.recipeId) = first.pre

C2_Witness ==
    /\ response.op = "toggle" /\ response.status = 200
    /\ \E first \in response.chain : first.pre

\* C3: a toggle of an existing recipe that no other request's write to the
\* pair overlaps flips the pair exactly once: a pair favorited before the
\* call has no row after it and the call returns isFavorite false; a pair
\* not favorited before has exactly one row after it and the call returns
\* isFavorite true.
C3_ToggleFlipsOnce ==
    (response.op = "toggle" /\ response.status # 404 /\ response.clean) =>
        /\ response.status = 200
        /\ response.isFavorite = {~response.pre}
        /\ Rows(userFavorites, response.userId, response.recipeId)
              = IF response.pre THEN 0 ELSE 1

C3_Witness ==
    /\ response.op = "toggle" /\ response.status = 200
    /\ response.clean /\ response.pre
    /\ response.isFavorite = {FALSE}

\* C4: a toggle call for a recipe id that does not exist ends at once with
\* the not-found answer (404) and leaves the favorites relation unchanged.
ToggleBegins(p, u, r) ==
    /\ proc[p].op = "idle"
    /\ started' = started + 1
    /\ \/ proc'[p].op = "toggle" /\ proc'[p].userId = u /\ proc'[p].recipeId = r
       \/ /\ response'.op = "toggle" /\ response'.userId = u /\ response'.recipeId = r
          /\ proc' = proc

C4_ToggleMissingRecipe ==
    [][\A p \in Procs, u \in Users, r \in RecipeIds :
          (ToggleBegins(p, u, r) /\ r \notin StoredIds) =>
              /\ response'.op = "toggle" /\ response'.status = 404
              /\ proc' = proc
              /\ userFavorites' = userFavorites]_vars

C4_Witness ==
    /\ response.op = "toggle" /\ response.status = 404
    /\ response.recipeId \notin StoredIds
    /\ userFavorites # EmptyBag

\* C5: the saves of a validated batch are independent: the request answers
\* 200 with exactly the recipes whose save succeeded, in candidate order, each
\* stored under its title, whichever saves failed.
Kept(batch, failed) ==
    LET F[i \in 0..Len(batch)] ==
            IF i = 0 THEN <<>>
            ELSE IF i \in failed THEN F[i - 1]
            ELSE Append(F[i - 1], batch[i].title)
    IN  F[Len(batch)]

C5_BatchPersistence ==
    (response.op = "generate" /\ response.cause = "none" /\ response.status # 400) =>
        /\ response.status = 200
        /\ [i \in 1..Len(response.body) |-> response.body[i].title]
              = Kept(response.batch, response.failed)
        /\ \A i \in 1..Len(response.body) :
              /\ response.body[i].isFavorite = FALSE
              /\ \E j \in 1..Len(recipes) :
                    /\ recipes[j].id = response.body[i].id
                    /\ recipes[j].title = response.body[i].title
        /\ \A i, j \in 1..Len(response.body) :
              i # j => response.body[i].id # response.body[j].id

C5_Witness ==
    /\ response.op = "generate" /\ response.status = 200
    /\ Len(response.batch) = 3 /\ response.failed = {2}
    /\ Len(response.body) = 2

\* C6: when generateRecipes fails (transport error, empty content,
\* unparseable content, schema-invalid content) the request stores no recipe,
\* returns no recipe and answers with one failure (500).
C6_GenerationAllOrNothing ==
    (response.op = "generate" /\ response.cause # "none") =>
        /\ response.status = 500
        /\ response.body = <<>>
        /\ response.created = {}

C6_Witness ==
    /\ response.op = "generate" /\ response.cause = "schema"
    /\ response.status = 500

\* C7: getRecipe with a user context returns the recipe with isFavorite true
\* exactly when a Favorite row (userId, id) exists; without a user context it
\* returns the recipe with isFavorite absent, and it answers not-found only
\* for a recipe that is not stored.
C7_ReadAnnotation ==
    (response.op = "getRecipe") =>
        /\ response.status \in {200, 404}
        /\ response.status = 404 => response.recipeId \notin StoredIds
        /\ response.status = 200 =>
              response.isFavorite =
                  IF response.userId = NoUser THEN {}
                  ELSE {Favorited(response.userId, response.recipeId)}

C7_Witness ==
    /\ response.op = "getRecipe" /\ response.status = 200
    /\ response.isFavorite = {FALSE}
    /\ \E v \in Users : Favorited(v, response.recipeId)

\* C8: getFavoriteRecipes(u) annotates every recipe it returns isFavorite
\* true and, when no write to u's favorites overlaps the call, returns all
\* and only the stored recipes r with a Favorite row (u, r).
BodyIds == {response.body[i].id : i \in 1..Len(response.body)}

C8_FavoritesListing ==
    (response.op = "favorites") =>
        /\ response.status = 200
        /\ \A i \in 1..Len(response.body) : response.body[i].isFavorite
        /\ response.clean =>
              BodyIds = {r \in StoredIds : Favorited(response.userId, r)}

C8_Witness ==
    /\ response.op = "favorites" /\ response.clean
    /\ BodyIds # {}
    /\ \E v \in Users, r \in RecipeIds :
          v # response.userId /\ Favorited(v, r) /\ r \notin BodyIds

\* C9: when deleteRecipe(id) completes, the recipe id is no longer stored and
\* no Favorite row of any user references it.
C9_DeleteCascades ==
    (response.op = "deleteRecipe" /\ response.status = 200) =>
        /\ response.recipeId \notin StoredIds
        /\ \A row \in DOMAIN userFavorites : row.recipeId # response.recipeId

C9_Witness ==
    /\ response.op = "deleteRecipe" /\ response.status = 200
    /\ response.pre

\* C10: every step of a toggle of (u, r) leaves the Favorite rows of every
\* other pair, and the recipes, as they were.
ToggleStepOn(u, r) ==
    \/ response'.op = "toggle" /\ response'.userId = u /\ response'.recipeId = r
    \/ \E p \in Procs :
          /\ proc'[p].op = "toggle" /\ proc'[p].pc # proc[p].pc
          /\ proc'[p].userId = u /\ proc'[p].recipeId = r

C10_ToggleFrame ==
    [][\A u \in Users, r \in RecipeIds :
          ToggleStepOn(u, r) =>
              /\ recipes' = recipes
              /\ \A w \in AllPairs :
                    w # <<u, r>> =>
                        Rows(userFavorites', w[1], w[2]) = Rows(userFavorites, w[1], w[2])]_vars

C10_Witness ==
    /\ response.op = "toggle" /\ response.status = 200
    /\ response.isFavorite = {FALSE}
    /\ \E v \in Users : v # response.userId /\ Favorited(v, response.recipeId)

\* -------------------------------------------------------- the validator
\* The reply handed to generateRecipes was a list of recipe objects, bare or
\* under `recipes`.
Validated == response.op = "generateRecipes"

IsList(c) ==
    /\ c.kind = "content" /\ c.content = JsonText
    /\ c.value.type = "array" \/ c.value.recipes.type = "array"

Input == ItemsOf(response.reply)

\* The same recipes under the other top-level shape.
Twin(c) ==
    IF c.value.type = "array"
    THEN Completion(c.kind, c.content, RecipesObject(JsonValue("array", c.value.items)))
    ELSE Completion(c.kind, c.content, BareArray(c.value.recipes.items))

UnitsOf(c) == {c.ingredients[i].unit : i \in 1..Len(c.ingredients)}

\* C14: the validator accepts a bare array of recipes and an object with a
\* `recipes` array alike: a list of conforming recipes is accepted in either
\* shape, recipe for recipe, and the outcome for a list in one shape is the
\* outcome for the same list in the other shape.
C14_BothShapes ==
    (Validated /\ IsList(response.reply)) =>
        /\ response.batch = GenerateRecipes(Twin(response.reply)).recipes
        /\ response.thrown = GenerateRecipes(Twin(response.reply)).error
        /\ (\A i \in 1..Len(Input) : Conforms(Input[i])) =>
              /\ response.status = 200
              /\ Len(response.batch) = Len(Input)
              /\ \A i \in 1..Len(Input) : response.batch[i].title = Input[i].title

C14_Witness ==
    /\ Validated /\ response.status = 200
    /\ response.reply.value.type = "array"
    /\ Len(response.batch) = 2

\* C15: when any single recipe of the list fails validation, generateRecipes
\* fails and returns no recipe at all, the valid ones included.
C15_WholeBatchRejected ==
    (Validated /\ IsList(response.reply)
        /\ \E i \in 1..Len(Input) : ~Conforms(Input[i])) =>
            /\ response.status = 500
            /\ response.batch = <<>>
            /\ response.thrown # NoError

C15_Witness ==
    /\ Validated /\ response.status = 500
    /\ Len(Input) = 3
    /\ Conforms(Input[1]) /\ ~Conforms(Input[2]) /\ Conforms(Input[3])

\* C16: an ingredient whose unit is null on input is accepted and comes out
\* with the empty string for its unit; no ingredient of a returned recipe has
\* a null unit, and the other units come out as they went in.
C16_NullUnitCoerced ==
    Validated =>
        /\ \A i \in 1..Len(response.batch) : JsonNull \notin UnitsOf(response.batch[i])
        /\ (IsList(response.reply) /\ \A i \in 1..Len(Input) : Conforms(Input[i])) =>
              /\ response.status = 200
              /\ \A i \in 1..Len(Input) : \A k \in 1..Len(Input[i].ingredients) :
                    response.batch[i].ingredients[k].unit =
                        IF Input[i].ingredients[k].unit = JsonNull THEN ""
                        ELSE Input[i].ingredients[k].unit

C16_Witness ==
    /\ Validated /\ response.status = 200
    /\ \E i \in 1..Len(Input) : JsonNull \in UnitsOf(Input[i])

\* C17: an ingredient whose unit is absent on input is accepted, and its unit
\* comes out as the empty string.
TextsConform(c) == {c.title, c.description, c.difficulty} \cap {Missing, JsonNull} = {}

C17_AbsentUnitDefaults ==
    (Validated /\ IsList(response.reply)
        /\ \A i \in 1..Len(Input) : TextsConform(Input[i])) =>
            /\ response.status = 200
            /\ Len(response.batch) = Len(Input)
            /\ \A i \in 1..Len(Input) :
                  Missing \in UnitsOf(Input[i]) => UnitsOf(response.batch[i]) = {""}

\* C18: title, description and difficulty are non-empty strings in every
\* validated recipe: a list with a recipe in which one of them is missing or
\* empty is rejected.
TextsOf(c) == {c.title, c.description, c.difficulty}

C18_TextsNonEmpty ==
    Validated =>
        /\ \A i \in 1..Len(response.batch) :
              TextsOf(response.batch[i]) \cap {"", Missing, JsonNull} = {}
        /\ (IsList(response.reply)
              /\ \E i \in 1..Len(Input) : TextsOf(Input[i]) \cap {"", Missing} # {})
              => response.status = 500

\* C19: each cause of failure - empty content, content that is no JSON,
\* content that breaks the schema - fails as its own kind of error, so that
\* the kind tells the causes apart, and none yields a recipe list.
C19_FailureKinds ==
    (Validated /\ response.cause \in {"empty", "malformed", "schema"}) =>
        /\ response.status = 500 /\ response.batch = <<>>
        /\ \A c \in Replies :
              FailureCause(c) \notin {"none", response.cause} =>
                  GenerateRecipes(c).error.name # response.thrown.name

GenerateStep ==
    \/ response'.op = "generate"
    \/ \E p \in Procs : proc'[p] # proc[p] /\ "generate" \in {proc[p].op, proc'[p].op}

C13_GenerationFrame ==
    [][GenerateStep =>
          /\ inventoryItems' = inventoryItems
          /\ userFavorites' = userFavorites
          /\ response'.status \in {400, 500} => recipes' = recipes
          /\ recipes' # recipes =>
                /\ \E p \in Procs :
                      /\ proc[p].op = "generate" /\ proc[p].pc = "saving"
                      /\ modelCalls[proc[p].req] > 0
                /\ Len(recipes') = Len(recipes) + 1
                /\ SubSeq(recipes', 1, Len(recipes)) = recipes]_vars

C13_Witness ==
    /\ response.op = "generate" /\ response.status = 200
    /\ response.created # {} /\ response.failed # {}
    /\ userFavorites # EmptyBag
    /\ Len(inventoryItems) > 1

\* C11: recipes are kept per user: a recipe generated from one user's
\* inventory is returned neither by the listing nor by the single-recipe read
\* to another user or to a caller who is not logged in.
ReturnedIds ==
    IF response.op = "getRecipes" THEN BodyIds
    ELSE IF response.op = "getRecipe" /\ response.status = 200 THEN {response.recipeId}
    ELSE {}

C11_RecipesPerUser ==
    [][(response.op = "generate" /\ response'.userId # response.userId)
          => ReturnedIds' \cap response.created = {}]_vars

\* C12: an inventory item id that does not exist, or whose item belongs to
\* another user, does not resolve: GET, PUT and DELETE /api/inventory/:id by
\* a user who does not own the item answer 404, and no step of a request of
\* one user changes or removes an item of another user.
ItemRoutes == {"inventoryGet", "inventoryPut", "inventoryDelete"}

Actor(p) == IF proc[p].op = "idle" THEN proc'[p].userId ELSE proc[p].userId

RowsOfOthers(tbl, u) == {tbl[i] : i \in {j \in 1..Len(tbl) : tbl[j].userId # u}}

C12_ItemsOfOthers ==
    [][/\ (response'.op \in ItemRoutes /\ response'.item.userId # response'.userId)
             => response'.status = 404
       /\ response'.op \in ItemRoutes /\ proc' = proc /\ response'.status = 404
             => inventoryItems' = inventoryItems
       /\ \A p \in Procs :
             proc'[p] # proc[p] =>
                 RowsOfOthers(inventoryItems, Actor(p))
                     \subseteq RowsOfOthers(inventoryItems', Actor(p))]_vars

C12_Witness ==
    /\ response.op = "inventoryDelete" /\ response.status = 404
    /\ response.item # NoItem /\ response.item.userId # response.userId
    /\ \E p \in Procs : proc[p].op = "inventoryPut" /\ proc[p].itemId = response.itemId

\* C25: in every interleaving of toggles of one pair (u, r), the isFavorite
\* a call returns says whether a Favorite row (u, r) exists in the state right
\* after that call's own insert or delete.
C25_ReturnedMatchesRow ==
    (response.op = "toggle" /\ response.status = 200) =>
        response.isFavorite = {Rows(userFavorites, response.userId, response.recipeId) > 0}

C25_Witness ==
    /\ response.op = "toggle" /\ response.status = 200 /\ ~response.clean
    /\ response.isFavorite = {TRUE}
    /\ Rows(userFavorites, response.userId, response.recipeId) = 2

\* C26: no dangling favorites: in every reachable state each Favorite row
\* references a stored recipe, also when deleteRecipe(id) runs between the
\* recipe check of a toggle of id and that toggle's insert.
C26_NoDanglingFavorites ==
    \A row \in DOMAIN userFavorites : row.recipeId \in StoredIds

C26_Witness ==
    /\ response.op = "toggle" /\ response.status = 500
    /\ response.recipeId \notin StoredIds

\* C27: after any toggles, overlapping or not, the list getFavoriteRecipes(u)
\* returns holds each recipe at most once.
C27_FavoritesListedOnce ==
    (response.op = "favorites") =>
        \A i, j \in 1..Len(response.body) :
            i # j => response.body[i].id # response.body[j].id

\* C29: a generate request of a user whose inventory is empty is answered
\* 400 before any call of the model and stores no recipe; only such a
\* request is answered 400.
HasNoItems(u) == \A i \in 1..Len(inventoryItems) : inventoryItems[i].userId # u

C29_EmptyInventoryRejected ==
    /\ \A p \in Procs : proc[p].op = "generate" => ~HasNoItems(proc[p].userId)
    /\ (response.op = "generate" /\ HasNoItems(response.userId)) =>
          /\ response.status = 400
          /\ response.body = <<>> /\ response.created = {}
          /\ modelCalls[response.req] = 0
          /\ \A p \in Procs : proc[p].req # response.req
    /\ (response.op = "generate" /\ response.status = 400) => HasNoItems(response.userId)

C29_Witness ==
    /\ response.op = "generate" /\ response.status = 400
    /\ inventoryItems # <<>>

\* C30: the owner of an inventory item comes from the session and never
\* changes: a created item carries the id of the user who posted it, whatever
\* userId the body carries, and no step changes the userId of a stored item.
C30_OwnerFromSession ==
    [][/\ (response'.op = "inventoryPost" /\ response'.status = 201) =>
             /\ Len(inventoryItems') = Len(inventoryItems) + 1
             /\ inventoryItems'[Len(inventoryItems')].userId = response'.userId
       /\ \A i \in 1..Len(inventoryItems) : \A j \in 1..Len(inventoryItems') :
             inventoryItems'[j].id = inventoryItems[i].id =>
                 inventoryItems'[j].userId = inventoryItems[i].userId]_vars

C30_Witness ==
    /\ response.op = "inventoryPut" /\ response.status = 200
    /\ response.userId # NumUsers
    /\ GetInventoryItem(inventoryItems, response.itemId).name = "rice"
    /\ GetInventoryItem(inventoryItems, response.itemId).userId = response.userId

\* C24 as stated: a generation batch has the fixed size 3: every call of
\* generateRecipes that succeeds returns exactly 3 recipes, and a reply that
\* carries another number of recipes is not accepted.
C24_FixedBatchSize ==
    Validated =>
        /\ response.status = 200 => Len(response.batch) = BatchSize
        /\ (IsList(response.reply) /\ Len(Input) # BatchSize) => response.status = 500

\* C24 amended: the batch is as long as the list the model replied: a list of
\* conforming recipes is accepted whatever its length, none included, and a
\* call that succeeds returns one recipe per recipe of the reply.
C24_BatchAsReplied ==
    Validated =>
        /\ response.status = 200 => IsList(response.reply) /\ Len(response.batch) = Len(Input)
        /\ (IsList(response.reply) /\ \A i \in 1..Len(Input) : Conforms(Input[i]))
              => response.status = 200

C24_Witness ==
    /\ Validated /\ response.status = 200
    /\ Len(response.batch) = 1 /\ Len(response.batch) # BatchSize

\* C28: the read endpoints report the favorite state alike: for a logged-in
\* user u, every recipe r that GET /api/recipes, GET /api/recipes/:id, GET
\* /api/recipes/favorites or the toggle answers with carries an isFavorite
\* that says whether the Favorite row (u, r) exists.
FavoriteOf(entry) == IF "isFavorite" \in DOMAIN entry THEN {entry.isFavorite} ELSE {}

Delivered ==
    IF response.op \in {"getRecipes", "favorites"}
    THEN {<<response.body[i].id, FavoriteOf(response.body[i])>> : i \in 1..Len(response.body)}
    ELSE IF response.op \in {"getRecipe", "toggle"}
    THEN {<<response.recipeId, response.isFavorite>>}
    ELSE {}

C28_FavoriteStateAgrees ==
    (response.status = 200 /\ response.userId # NoUser /\ response.clean) =>
        \A d \in Delivered : d[2] = {Favorited(response.userId, d[1])}

\* C23: for every inventory sequence, the empty one included, the prompt is
\* a function of the entries' names, quantities and units alone and holds,
\* between the lines of the template, exactly one line
\* "<name>: <quantity> <unit>" per entry, in the order of the entries.
EntryText(e) == e.name \o ": " \o e.quantity \o " " \o e.unit

EntryTexts == {EntryText(e) : e \in Shelf}

EntryLines(text) == SelectSeq(text, LAMBDA l : l.text \in EntryTexts)

Renumbered(items) ==
    [i \in 1..Len(items) |-> [items[i] EXCEPT !.id = Len(items) + 1 - i, !.userId = NumUsers]]

SavedRow == recipes'[Len(recipes')]

RowOf(tbl, id) == SelectSeq(tbl, LAMBDA row : row.id = id)[1]

C21_RoundTrip ==
    [][/\ \A k \in 1..Len(recipes) : k <= Len(recipes') /\ recipes'[k] = recipes[k]
       /\ Len(recipes') > Len(recipes) =>
             \E p \in Procs : \E i \in 1..Len(proc[p].batch) :
                 /\ proc[p].op = "generate" /\ proc[p].saved[i] = Pending
                 /\ (proc'[p].op = "generate" => proc'[p].saved[i].id = SavedRow.id)
                 /\ SavedRow.title = proc[p].batch[i].title
                 /\ JsonParse(SavedRow.ingredients)
                       = [ok |-> TRUE, value |-> proc[p].batch[i].ingredients]
                 /\ JsonParse(SavedRow.instructions)
                       = [ok |-> TRUE, value |-> proc[p].batch[i].instructions]
       /\ (response'.op \in {"getRecipe", "getRecipes"} /\ response'.status = 200) =>
             /\ Len(response'.body) > 0
             /\ \A k \in 1..Len(response'.body) :
                   LET row == RowOf(recipes, response'.body[k].id)
                   IN  /\ response'.body[k].ingredients = JsonParse(row.ingredients).value
                       /\ response'.body[k].instructions = JsonParse(row.instructions).value]_vars

C21_Witness ==
    /\ response.op = "getRecipe" /\ response.status = 200
    /\ response.recipeId > NumRecipes
    /\ Len(response.body[1].ingredients) = 2
    /\ response.body[1].ingredients[1] = Salt
    /\ response.body[1].ingredients[2] = Ingredient("pcs")
    /\ Len(response.body[1].instructions) = 2
    /\ response.body[1].instructions[1].step > response.body[1].instructions[2].step

\* C22: a stored recipe with a column that fails to parse is signalled as an
\* error on read: the single-recipe read and the toggle of it, and a listing
\* or a favorites listing that holds it, answer with an error (500); no
\* answer that succeeds carries it, with or without its collections, and a
\* listing does not succeed by leaving it out.
NoJson(text) == text.syntax # "array"

CorruptIds ==
    {recipes[i].id : i \in {j \in 1..Len(recipes) :
                                NoJson(recipes[j].ingredients) \/ NoJson(recipes[j].instructions)}}

ReadRoutes == {"getRecipe", "getRecipes", "favorites", "toggle"}

C22_CorruptRecordSignalled ==
    (response.op \in ReadRoutes) =>
        /\ response.status \in {200, 404, 500}
        /\ response.status = 200 =>
              /\ response.recipeId \notin CorruptIds
              /\ BodyIds \cap CorruptIds = {}
              /\ response.op = "getRecipes" => CorruptIds = {}
              /\ (response.op = "favorites" /\ response.clean) =>
                    \A r \in CorruptIds : ~Favorited(response.userId, r)
        /\ response.status = 500 =>
              /\ response.body = <<>> /\ response.isFavorite = {}
              /\ response.op \in {"getRecipe", "toggle"} => response.recipeId \in CorruptIds
        /\ response.status = 404 => response.recipeId \notin StoredIds

C22_Witness ==
    /\ response.op = "favorites" /\ response.status = 500
    /\ \E r \in RecipeIds \ CorruptIds : Favorited(response.userId, r)

====
